---------------------------- MODULE Spec2Model ----------------------------
(***************************************************************************)
(* Model of the AAduino Zero serial console (examples/cli/main.c): the     *)
(* interrupt-fed receive ring buffer, the line assembler of main(), the    *)
(* command table, the command handlers and the low-power foreground loop.  *)
(*                                                                         *)
(* Characters are one-character strings, C strings are sequences of        *)
(* characters.  The transcript (dbg_printf) is recorded per foreground     *)
(* step in `out`: each item is a tuple whose first element is the format   *)
(* string of the dbg_printf call and whose other elements are its          *)
(* arguments.                                                              *)
(***************************************************************************)
EXTENDS Integers, Sequences, FiniteSets, TLC

\* ------------------------------------------------------------------------
\* Program constants
\* ------------------------------------------------------------------------
RX_BUF_SIZE == 16

MAX_LINE_LENGTH == 80

\* Ids of the radio units in the persistent store (pastunits.h).
past_rfm_node_id == 1

past_rfm_net_id == 2

past_rfm_gateway_id == 3

past_rfm_max_power == 4

past_rfm_key == 5

\* Blink counts handed to blinken_halt.
HaltBlinks == 2

InitFailBlinks == 3

\* ------------------------------------------------------------------------
\* Bounds of the model
\* ------------------------------------------------------------------------
\* Longest over-long input line is MAX_LINE_LENGTH + MaxOver characters.
MaxOver == 1

\* Number of filler arguments of the longest halt line.
MaxHaltArgs == 2

\* The serial link keeps at most this many characters waiting in the ring
\* buffer (at most RX_BUF_SIZE): the claims checked are about the characters
\* that enter the buffer.
MaxAhead == 1

\* ------------------------------------------------------------------------
\* Characters and C strings
\* ------------------------------------------------------------------------
NUL == "NUL"

CR == "\r"

LF == "\n"

SP == " "

TAB == "\t"

VT == "VT"

FF == "\f"

Digits == <<"0", "1", "2", "3", "4", "5", "6", "7", "8", "9">>

IsDigit(c) == \E d \in 1..10 : Digits[d] = c

DigitVal(c) == (CHOOSE d \in 1..10 : Digits[d] = c) - 1

\* isspace() of the C locale: space, \t, \n, \v, \f, \r.
isspace(c) == c \in {SP, TAB, LF, VT, FF, CR}

\* The characters the tokenizer splits on: ASCII white space.
IsSpace(c) == isspace(c)

\* The C string stored in a character array: the characters before the first
\* terminator.
RECURSIVE CStr(_)
CStr(a) ==
    IF a = <<>> \/ Head(a) = NUL THEN <<>>
    ELSE <<Head(a)>> \o CStr(Tail(a))

strlen(s) == Len(CStr(s))

strcmp0(a, b) == CStr(a) = CStr(b)

INT_MAX == 2147483647

INT_MIN == (0 - INT_MAX) - 1

\* What the digits of a number beyond the range of int make of atoi, whose
\* behaviour is then undefined: the low 32 bits of the value (an int
\* accumulator that wraps), the nearest bound of int (a libc that converts
\* through a 32-bit long), or the low 32 bits of the value clamped to the
\* range of a 64-bit long (a libc that converts through a 64-bit long).
AtoiOverflows == {"wrap", "saturate", "long"}

\* Marks of AtoiDigits for a magnitude of exactly INT_MAX + 1 and for a
\* larger one.
AtoiMinMagnitude == -2

AtoiOverflow == -1

\* The magnitude of the leading decimal digits of s, accumulated in an int.
RECURSIVE AtoiDigits(_, _)
AtoiDigits(s, acc) ==
    IF s = <<>> \/ ~IsDigit(Head(s)) THEN acc
    ELSE IF \/ acc < INT_MAX \div 10
            \/ acc = INT_MAX \div 10 /\ DigitVal(Head(s)) <= (INT_MAX % 10)
    THEN AtoiDigits(Tail(s), acc * 10 + DigitVal(Head(s)))
    ELSE IF /\ acc = INT_MAX \div 10
            /\ DigitVal(Head(s)) = (INT_MAX % 10) + 1
            /\ (Len(s) = 1 \/ ~IsDigit(s[2]))
    THEN AtoiMinMagnitude
    ELSE AtoiOverflow

\* The leading decimal digits of s modulo 2^32, as two 16-bit halves.
RECURSIVE WrapDigits(_, _, _)
WrapDigits(s, hi, lo) ==
    IF s = <<>> \/ ~IsDigit(Head(s)) THEN [hi |-> hi, lo |-> lo]
    ELSE WrapDigits(Tail(s),
                    (hi * 10 + (lo * 10 + DigitVal(Head(s))) \div 65536) % 65536,
                    (lo * 10 + DigitVal(Head(s))) % 65536)

\* The negation modulo 2^32 of a value given by its halves.
WrapNegate(w) ==
    IF w.lo = 0 THEN [hi |-> (65536 - w.hi) % 65536, lo |-> 0]
    ELSE [hi |-> 65535 - w.hi, lo |-> 65536 - w.lo]

\* The int whose 32 bits are the halves of w.
WrapInt(w) ==
    IF w.hi >= 32768 THEN (w.hi - 65536) * 65536 + w.lo ELSE w.hi * 65536 + w.lo

\* The digits of LONG_MAX = 2^63 - 1.
LongMaxDigits ==
    <<"9", "2", "2", "3", "3", "7", "2", "0", "3", "6", "8", "5", "4", "7", "7",
      "5", "8", "0", "7">>

\* The leading decimal digits of s, without leading zeros.
RECURSIVE LeadingDigits(_)
LeadingDigits(s) ==
    IF s = <<>> \/ ~IsDigit(Head(s)) THEN <<>>
    ELSE <<Head(s)>> \o LeadingDigits(Tail(s))

RECURSIVE StripZeros(_)
StripZeros(s) ==
    IF s # <<>> /\ Head(s) = "0" THEN StripZeros(Tail(s)) ELSE s

\* a > b for two digit strings of the same length.
RECURSIVE DigitsGreater(_, _)
DigitsGreater(a, b) ==
    /\ a # <<>>
    /\ \/ DigitVal(Head(a)) > DigitVal(Head(b))
       \/ Head(a) = Head(b) /\ DigitsGreater(Tail(a), Tail(b))

\* The magnitude of the digits of s is beyond the range of a 64-bit long:
\* above LONG_MAX, or for a negative number above LONG_MAX + 1.
BeyondLong(s, neg) ==
    LET d == StripZeros(LeadingDigits(s))
    IN  \/ Len(d) > Len(LongMaxDigits)
        \/ /\ Len(d) = Len(LongMaxDigits)
           /\ DigitsGreater(d, LongMaxDigits)
           /\ ~(neg /\ d = SubSeq(LongMaxDigits, 1, 18) \o <<"8">>)

RECURSIVE SkipSpace(_)
SkipSpace(s) ==
    IF s # <<>> /\ isspace(Head(s)) THEN SkipSpace(Tail(s)) ELSE s

\* atoi(): optional white space, optional sign, then decimal digits up to the
\* first non-digit; 0 when there is no digit.  For a number outside the
\* range of int the behaviour is undefined: ub is what the build makes of it.
atoi(str, ub) ==
    LET s      == SkipSpace(CStr(str))
        neg    == s # <<>> /\ Head(s) = "-"
        digits == IF s # <<>> /\ Head(s) \in {"-", "+"} THEN Tail(s) ELSE s
        m      == AtoiDigits(digits, 0)
    IN  IF m >= 0 THEN (IF neg THEN 0 - m ELSE m)
        ELSE IF m = AtoiMinMagnitude /\ neg THEN INT_MIN
        ELSE IF ub = "saturate" THEN (IF neg THEN INT_MIN ELSE INT_MAX)
        ELSE IF ub = "long" /\ BeyondLong(digits, neg) THEN (IF neg THEN 0 ELSE -1)
        ELSE IF neg THEN WrapInt(WrapNegate(WrapDigits(digits, 0, 0)))
        ELSE WrapInt(WrapDigits(digits, 0, 0))

\* Conversion of an int to uint32_t: the value n for n >= 0 and 2^32 + n for
\* n < 0, given by its two 16-bit halves (2^32 - 1 is beyond the integers
\* the checker computes with).
U32(n) ==
    IF n >= 0 THEN [hi |-> n \div 65536, lo |-> n % 65536]
    ELSE [hi |-> 65535 - ((0 - (n + 1)) \div 65536),
          lo |-> 65535 - ((0 - (n + 1)) % 65536)]

\* a > b for two uint32_t values.
U32Greater(a, b) == a.hi > b.hi \/ (a.hi = b.hi /\ a.lo > b.lo)

\* ------------------------------------------------------------------------
\* String literals of the program, as character sequences
\* ------------------------------------------------------------------------
S_help == <<"h", "e", "l", "p">>

S_halt == <<"h", "a", "l", "t">>

S_pastformat == <<"p", "a", "s", "t", "f", "o", "r", "m", "a", "t">>

S_pastread == <<"p", "a", "s", "t", "r", "e", "a", "d">>

S_pastwrite == <<"p", "a", "s", "t", "w", "r", "i", "t", "e">>

S_pasterase == <<"p", "a", "s", "t", "e", "r", "a", "s", "e">>

S_pastdump == <<"p", "a", "s", "t", "d", "u", "m", "p">>

S_temp == <<"t", "e", "m", "p">>

S_tempalert == <<"t", "e", "m", "p", "a", "l", "e", "r", "t">>

S_rfm == <<"r", "f", "m">>

S_rtc == <<"r", "t", "c">>

S_power == <<"p", "o", "w", "e", "r">>

S_low == <<"l", "o", "w">>

S_normal == <<"n", "o", "r", "m", "a", "l">>

S_init == <<"i", "n", "i", "t">>

S_id == <<"i", "d">>

S_net == <<"n", "e", "t">>

S_gw == <<"g", "w">>

S_pwr == <<"p", "w", "r">>

S_key == <<"k", "e", "y">>

S_tx == <<"t", "x">>

\* ------------------------------------------------------------------------
\* The command table
\* ------------------------------------------------------------------------
Cmd(cmd, handler, min_arg, max_arg, help, usage) ==
    [cmd |-> cmd, handler |-> handler, min_arg |-> min_arg,
     max_arg |-> max_arg, help |-> help, usage |-> usage]

\* Mutant of the table: an abbreviation of "power" is registered too.
commandsWithAlias ==
    <<
      Cmd(S_help, "help_handler", 0, 0, "Print help", ""),
      Cmd(S_halt, "halt_handler", 0, 64, "Halt the system", "<arg> ... <arg>"),
      Cmd(S_pastformat, "past_format_handler", 0, 0, "Format past", ""),
      Cmd(S_pastread, "past_read_handler", 1, 1, "Read unit from past", "<unit>"),
      Cmd(S_pastwrite, "past_write_handler", 2, 2, "Write unit to past", "<unit> <data>"),
      Cmd(S_pasterase, "past_erase_handler", 1, 1, "Erase unit from past", "<unit>"),
      Cmd(S_pastdump, "past_dump_handler", 0, 1, "Dump past", "[<size>]"),
      Cmd(S_temp, "temperature_handler", 0, 0, "Show TMP102 temperature", ""),
      Cmd(S_tempalert, "temperature_alert_handler", 0, 2, "Show TMP102 alert", ""),
      Cmd(S_rfm, "rfm_handler", 0, 3, "Handle RFM69", ""),
      Cmd(S_rtc, "rtc_handler", 0, 0, "Handle RTC", ""),
      Cmd(S_power, "power_handler", 1, 1, "Handle low power mode", "<low | normal>"),
      Cmd(<<"p", "o", "w">>, "power_handler", 1, 1, "Handle low power mode",
          "<low | normal>")
    >>

commands ==
    <<
      Cmd(S_help, "help_handler", 0, 0, "Print help", ""),
      Cmd(S_halt, "halt_handler", 0, 64, "Halt the system", "<arg> ... <arg>"),
      Cmd(S_pastformat, "past_format_handler", 0, 0, "Format past", ""),
      Cmd(S_pastread, "past_read_handler", 1, 1, "Read unit from past", "<unit>"),
      Cmd(S_pastwrite, "past_write_handler", 2, 2, "Write unit to past", "<unit> <data>"),
      Cmd(S_pasterase, "past_erase_handler", 1, 1, "Erase unit from past", "<unit>"),
      Cmd(S_pastdump, "past_dump_handler", 0, 1, "Dump past", "[<size>]"),
      Cmd(S_temp, "temperature_handler", 0, 0, "Show TMP102 temperature", ""),
      Cmd(S_tempalert, "temperature_alert_handler", 0, 2, "Show TMP102 alert", ""),
      Cmd(S_rfm, "rfm_handler", 0, 3, "Handle RFM69", ""),
      Cmd(S_rtc, "rtc_handler", 0, 0, "Handle RTC", ""),
      Cmd(S_power, "power_handler", 1, 1, "Handle low power mode", "<low | normal>")
    >>

NumCommands == Len(commands)

\* ------------------------------------------------------------------------
\* The persistent store (past.h), by its contract.  A store is a function
\* from the ids of the units it holds to their contents.  A unit written
\* from a string is [bytes, len]; a unit written from a uint32_t is
\* [word, len].
\* ------------------------------------------------------------------------
EmptyPast == [u \in {} |-> 0]

StrUnit(bytes, len) == [bytes |-> SubSeq(bytes, 1, len), len |-> len]

WordUnit(value) == [word |-> value, len |-> 4]

\* past_format(): resets the storage to empty; nothing changes when it fails.
past_format(past, ok) == IF ok THEN EmptyPast ELSE past

\* past_read_unit(): found or not found.
past_read_unit(past, id) == id \in DOMAIN past

\* past_write_unit(): the unit holds the data when the write succeeds.
past_write_unit(past, id, unit, ok) ==
    IF ok THEN [u \in DOMAIN past \cup {id} |-> IF u = id THEN unit ELSE past[u]]
    ELSE past

\* past_erase_unit(): succeeds on a unit the store holds.
past_erase_ok(past, id, ok) == ok /\ id \in DOMAIN past

past_erase_unit(past, id, ok) ==
    IF past_erase_ok(past, id, ok)
    THEN [u \in DOMAIN past \ {id} |-> past[u]]
    ELSE past

\* ------------------------------------------------------------------------
\* Handlers.  A handler takes argc, argv (argv[1] of the model is argv[0] of
\* the program), the state st it can change (store, power mode, tick
\* service) and the outcomes oc of the collaborator calls it may make, and
\* returns the new state with the transcript items it printed, the
\* collaborator calls it made (in order), the argv slots it read and whether
\* it ended in blinken_halt.
\* ------------------------------------------------------------------------
\* A collaborator call and whether it succeeded.
Call(fn, ok) == [fn |-> fn, ok |-> ok]

\* A call into the store, with the unit it names.
StoreCall(fn, id, ok) == [fn |-> fn, ok |-> ok, unit |-> id]

\* Mutant of blinken_halt: the blink loop ends and the function returns.
blinken_halt_returns(blink_count) == 0

\* blinken_halt(): an endless blink loop.  It never returns; its value here
\* is the blink count the system is left signalling (0 would be a return).
blinken_halt(blink_count) == blink_count

Result(st, out, calls, reads) ==
    [past |-> st.past, low_power |-> st.low_power, systick |-> st.systick,
     out |-> out, calls |-> calls, reads |-> reads, halted |-> 0,
     fault |-> FALSE]

\* argv[k] of the program (k from 0).
Arg(argv, k) == argv[k + 1]

\* dump_mem(): the summary line and the rows of `length` bytes, as one item.
dump_mem(what, length) == <<"dump_mem", what, length>>

\* A dump_mem that reads an address nothing is mapped at: the summary line
\* and the rows of the bytes before that address, then a memory fault.
dump_mem_faults(what, length) == <<"dump_mem fault", what, length>>

\* The extent of one block of the store, the address of the linker symbol
\* past_block_size (main.c:55), which the linker script sets.  1 KiB stands
\* for it: only the order of a dump size to it matters.
past_block_size == 1024

\* What reading memory beyond a block of the store comes to, which is
\* undefined: the memory is there and the dump completes, or the read
\* faults in the dump of block 0, or in the dump of block 1.
DumpOutcomes == {"ok", "fault0", "fault1"}

help_handler(argc, argv, st, oc) ==
    Result(st,
           [k \in 1..NumCommands |->
               <<"%s    %s\n", commands[k].cmd, commands[k].help>>],
           <<>>, {})

halt_handler(argc, argv, st, oc) ==
    [Result(st,
            [k \in 1..argc |-> <<"%d '%s'\n", k - 1, Arg(argv, k - 1)>>]
                \o << <<"Halted\n">> >>,
            <<>>, 0..(argc - 1))
     EXCEPT !.halted = blinken_halt(HaltBlinks)]

\* A past_format_handler that treats a failed past_init the way main does at
\* startup: it never returns.
past_format_handler_halts(argc, argv, st, oc) ==
    LET formatted == past_format(st.past, oc.format)
        out1 == IF ~oc.format THEN << <<"Past formatting failed\n">> >> ELSE <<>>
        out2 == IF oc.init THEN << <<"OK\n">> >> ELSE << <<"ERROR\n">> >>
    IN  [Result(st, out1 \o out2, <<Call("past_format", oc.format), Call("past_init", oc.init)>>, {})
         EXCEPT !.past = formatted,
                !.halted = IF oc.init THEN 0 ELSE blinken_halt(InitFailBlinks)]

past_format_handler(argc, argv, st, oc) ==
    LET formatted == past_format(st.past, oc.format)
        out1 == IF ~oc.format THEN << <<"Past formatting failed\n">> >> ELSE <<>>
        out2 == IF oc.init THEN << <<"OK\n">> >> ELSE << <<"ERROR\n">> >>
    IN  [Result(st, out1 \o out2, <<Call("past_format", oc.format), Call("past_init", oc.init)>>, {})
         EXCEPT !.past = formatted]

\* A past_read_handler that dumps the read buffer whatever past_read_unit
\* answered.
past_read_handler_dumps(argc, argv, st, oc) ==
    LET unit_id == U32(atoi(Arg(argv, 1), oc.ub))
    IN  IF past_read_unit(st.past, unit_id)
        THEN Result(st,
                    << <<"'%s' (%d bytes)\n", st.past[unit_id], st.past[unit_id].len>>,
                       dump_mem(st.past[unit_id], st.past[unit_id].len) >>,
                    <<StoreCall("past_read_unit", unit_id, TRUE)>>, {1})
        ELSE Result(st, << <<"Unit %d not found\n", unit_id>>,
                           dump_mem("data", 0) >>,
                    <<StoreCall("past_read_unit", unit_id, FALSE)>>, {1})

past_read_handler(argc, argv, st, oc) ==
    LET unit_id == U32(atoi(Arg(argv, 1), oc.ub))
    IN  IF past_read_unit(st.past, unit_id)
        THEN Result(st,
                    << <<"'%s' (%d bytes)\n", st.past[unit_id], st.past[unit_id].len>>,
                       dump_mem(st.past[unit_id], st.past[unit_id].len) >>,
                    <<StoreCall("past_read_unit", unit_id, TRUE)>>, {1})
        ELSE Result(st, << <<"Unit %d not found\n", unit_id>> >>,
                    <<StoreCall("past_read_unit", unit_id, FALSE)>>, {1})

\* A past_write_handler that stores the data token without its terminator.
past_write_handler_noterm(argc, argv, st, oc) ==
    LET unit_id == U32(atoi(Arg(argv, 1), oc.ub))
        data    == CStr(Arg(argv, 2))
        length  == strlen(Arg(argv, 2))
    IN  IF oc.write
        THEN [Result(st, << <<"Wrote unit %d (%d bytes)\n", unit_id, length>> >>,
                     <<StoreCall("past_write_unit", unit_id, TRUE)>>, {1, 2})
              EXCEPT !.past = past_write_unit(st.past, unit_id,
                                              StrUnit(data, length), TRUE)]
        ELSE Result(st, << <<"Failed to write unit %d\n", unit_id>> >>,
                    <<StoreCall("past_write_unit", unit_id, FALSE)>>, {1, 2})

past_write_handler(argc, argv, st, oc) ==
    LET unit_id == U32(atoi(Arg(argv, 1), oc.ub))
        data    == CStr(Arg(argv, 2)) \o <<NUL>>
        length  == strlen(Arg(argv, 2)) + 1
    IN  IF oc.write
        THEN [Result(st, << <<"Wrote unit %d (%d bytes)\n", unit_id, length>> >>,
                     <<StoreCall("past_write_unit", unit_id, TRUE)>>, {1, 2})
              EXCEPT !.past = past_write_unit(st.past, unit_id,
                                              StrUnit(data, length), TRUE)]
        ELSE Result(st, << <<"Failed to write unit %d\n", unit_id>> >>,
                    <<StoreCall("past_write_unit", unit_id, FALSE)>>, {1, 2})

past_erase_handler(argc, argv, st, oc) ==
    LET unit_id == U32(atoi(Arg(argv, 1), oc.ub))
    IN  IF past_erase_ok(st.past, unit_id, oc.erase)
        THEN [Result(st, << <<"Erased unit %d\n", unit_id>> >>,
                     <<StoreCall("past_erase_unit", unit_id, TRUE)>>, {1})
              EXCEPT !.past = past_erase_unit(st.past, unit_id, oc.erase)]
        ELSE Result(st, << <<"Failed to erase unit %d\n", unit_id>> >>,
                    <<StoreCall("past_erase_unit", unit_id, FALSE)>>, {1})

past_dump_handler(argc, argv, st, oc) ==
    LET dump_size == IF argc = 2 THEN U32(atoi(Arg(argv, 1), oc.ub))
                     ELSE U32(past_block_size)
        reads     == IF argc = 2 THEN {1} ELSE {}
    IN  IF ~U32Greater(dump_size, U32(past_block_size)) \/ oc.dump = "ok"
        THEN Result(st,
                    << <<"Past block 0:\n">>, dump_mem("blocks[0]", dump_size),
                       <<"\nPast block 1:\n">>, dump_mem("blocks[1]", dump_size) >>,
                    <<>>, reads)
        ELSE IF oc.dump = "fault0"
        THEN [Result(st,
                     << <<"Past block 0:\n">>,
                        dump_mem_faults("blocks[0]", dump_size) >>,
                     <<>>, reads)
              EXCEPT !.fault = TRUE]
        ELSE [Result(st,
                     << <<"Past block 0:\n">>, dump_mem("blocks[0]", dump_size),
                        <<"\nPast block 1:\n">>,
                        dump_mem_faults("blocks[1]", dump_size) >>,
                     <<>>, reads)
              EXCEPT !.fault = TRUE]

\* oc.temp is 1000 * tmp102_readTempC() as converted to uint32_t.
temperature_handler(argc, argv, st, oc) ==
    Result(st, << <<"%d.%d C\n", oc.temp \div 1000, (oc.temp % 1000) \div 100>> >>,
           <<Call("tmp102_readTempC", TRUE)>>, {})

temperature_alert_handler(argc, argv, st, oc) ==
    IF argc = 3
    THEN Result(st, << <<"low:%d high:%d\n", atoi(Arg(argv, 1), oc.ub), atoi(Arg(argv, 2), oc.ub)>> >>,
                <<>>, {1, 2})
    ELSE IF argc = 1
    THEN Result(st, << <<"%d\n", oc.pin>> >>, <<Call("gpio_get", TRUE)>>, {})
    ELSE Result(st, <<>>, <<>>, {})

\* The five radio units, in the order rfm_init and dump_rfm_settings read
\* them, with the error rfm_init prints for each.
RfmInitUnits ==
    << <<U32(past_rfm_node_id), "ERROR: RFM node id missing\n">>,
       <<U32(past_rfm_net_id), "ERROR: RFM network id missing\n">>,
       <<U32(past_rfm_gateway_id), "ERROR: RFM gateway id missing\n">>,
       <<U32(past_rfm_max_power), "ERROR: RFM max power missing\n">>,
       <<U32(past_rfm_key), "ERROR: RFM ARM key missing\n">> >>

\* One "name : value" row of dump_rfm_settings.
RfmSettingRow(label, past, id) ==
    << <<label>>,
       IF past_read_unit(past, id) THEN <<"%d\n", past[id]>> ELSE <<"NA\n">> >>

dump_rfm_settings(st) ==
    Result(st,
           RfmSettingRow("Node id    : ", st.past, U32(past_rfm_node_id))
           \o RfmSettingRow("Network id : ", st.past, U32(past_rfm_net_id))
           \o RfmSettingRow("Gateway id : ", st.past, U32(past_rfm_gateway_id))
           \o RfmSettingRow("Max power  : ", st.past, U32(past_rfm_max_power))
           \o << <<"AES key    : ">>,
                 IF past_read_unit(st.past, U32(past_rfm_key))
                 THEN <<"%s\n", st.past[U32(past_rfm_key)]>> ELSE <<"NA\n">> >>,
           [k \in 1..Len(RfmInitUnits) |->
               Call("past_read_unit", past_read_unit(st.past, RfmInitUnits[k][1]))],
           {})

\* Number of units rfm_init reads before it stops: up to and including the
\* first missing one.
RfmInitReads(past) ==
    IF \E k \in 1..Len(RfmInitUnits) : ~past_read_unit(past, RfmInitUnits[k][1])
    THEN CHOOSE k \in 1..Len(RfmInitUnits) :
            /\ ~past_read_unit(past, RfmInitUnits[k][1])
            /\ \A j \in 1..(k - 1) : past_read_unit(past, RfmInitUnits[j][1])
    ELSE Len(RfmInitUnits)

rfm_init(st, oc) ==
    LET n     == RfmInitReads(st.past)
        reads == [k \in 1..n |->
                     Call("past_read_unit", past_read_unit(st.past, RfmInitUnits[k][1]))]
        radio == <<Call("rfm69_setResetPin", TRUE), Call("rfm69_reset", TRUE),
                   Call("rfm69_init", oc.radio)>>
    IN  IF ~past_read_unit(st.past, RfmInitUnits[n][1])
        THEN Result(st, << <<RfmInitUnits[n][2]>> >>, reads, {})
        ELSE IF ~oc.radio
        THEN Result(st, << <<"ERROR: No RFM69CW found\n">> >>,
                    reads \o radio, {})
        ELSE Result(st, << <<"OK\n">> >>,
                    reads \o radio
                    \o [k \in 1..7 |->
                          Call(<<"rfm69_sleep", "rfm69_setPowerDBm", "rfm69_setCSMA",
                                 "rfm69_setAutoReadRSSI", "rfm69_setAESEncryption",
                                 "rfm69link_setNodeId", "rfm69link_setNetworkId">>[k],
                               TRUE)],
                    {})

rfm_set_uint32(st, oc, id, value) ==
    IF oc.write
    THEN [Result(st, << <<"%d:%d\n", id, value>>, <<"OK\n">> >>,
                 <<StoreCall("past_write_unit", id, TRUE)>>, {})
          EXCEPT !.past = past_write_unit(st.past, id, WordUnit(value), TRUE)]
    ELSE Result(st, << <<"%d:%d\n", id, value>>, <<"ERROR\n">> >>,
                <<StoreCall("past_write_unit", id, FALSE)>>, {})

rfm_set_str(st, oc, id, str, len) ==
    IF oc.write
    THEN [Result(st, << <<"OK\n">> >>, <<StoreCall("past_write_unit", id, TRUE)>>, {})
          EXCEPT !.past = past_write_unit(st.past, id, StrUnit(str, len), TRUE)]
    ELSE Result(st, << <<"ERROR\n">> >>, <<StoreCall("past_write_unit", id, FALSE)>>, {})

\* oc.tx is the status of rfm69link_sendFrame, oc.rssi the rssi it left in
\* the frame.
rfm_tx(st, oc, dst, data) ==
    IF oc.tx = 0
    THEN Result(st, << <<"ERROR:No response\n">> >>,
                <<Call("rfm69link_sendFrame", FALSE)>>, {})
    ELSE Result(st, << <<"OK:%d:%d\n", oc.tx, oc.rssi>> >>,
                <<Call("rfm69link_sendFrame", TRUE)>>, {})

WithReads(r, reads) == [r EXCEPT !.reads = reads]

rfm_handler(argc, argv, st, oc) ==
    IF argc = 1 THEN WithReads(dump_rfm_settings(st), {1})
    ELSE IF argc = 2 THEN
        IF strcmp0(Arg(argv, 1), S_init) THEN WithReads(rfm_init(st, oc), {1})
        ELSE Result(st, <<>>, <<>>, {1})
    ELSE IF argc = 3 THEN
        IF strcmp0(Arg(argv, 1), S_id)
        THEN WithReads(rfm_set_uint32(st, oc, U32(past_rfm_node_id),
                                      U32(atoi(Arg(argv, 2), oc.ub))), {1, 2})
        ELSE IF strcmp0(Arg(argv, 1), S_net)
        THEN WithReads(rfm_set_uint32(st, oc, U32(past_rfm_net_id),
                                      U32(atoi(Arg(argv, 2), oc.ub))), {1, 2})
        ELSE IF strcmp0(Arg(argv, 1), S_gw)
        THEN WithReads(rfm_set_uint32(st, oc, U32(past_rfm_gateway_id),
                                      U32(atoi(Arg(argv, 2), oc.ub))), {1, 2})
        ELSE IF strcmp0(Arg(argv, 1), S_pwr)
        THEN WithReads(rfm_set_uint32(st, oc, U32(past_rfm_max_power),
                                      U32(atoi(Arg(argv, 2), oc.ub))), {1, 2})
        ELSE IF strcmp0(Arg(argv, 1), S_key)
        THEN IF strlen(Arg(argv, 2)) # 16
             THEN Result(st, << <<"ERROR: key must be 16 bytes\n">> >>, <<>>, {1, 2})
             ELSE WithReads(rfm_set_str(st, oc, U32(past_rfm_key), Arg(argv, 2), 16), {1, 2})
        ELSE Result(st, << <<"ERROR: Illegal command\n">> >>, <<>>, {1})
    ELSE IF argc = 4 THEN
        IF strcmp0(Arg(argv, 1), S_tx)
        THEN WithReads(rfm_tx(st, oc, U32(atoi(Arg(argv, 2), oc.ub)).lo % 256, Arg(argv, 3)),
                       {1, 2, 3})
        ELSE Result(st, << <<"ERROR: Illegal command\n">> >>, <<>>, {1})
    ELSE Result(st, << <<"ERROR: Wrong number of parameters\n">> >>, <<>>, {1})

\* The time-of-day digits come from the RTC_TR register and the counter from
\* the clock driver; the transcript records the four lines printed.
rtc_handler(argc, argv, st, oc) ==
    Result(st,
           << <<"Time: %d%d:">>, <<"%d%d:">>, <<"%d%d\n">>, <<"RTC counter: %d\n">> >>,
           <<Call("rtcdrv_get_counter", TRUE)>>, {})

\* Mutant of power_handler: "normal" restarts the tick service and leaves
\* the low_power flag set.
power_handler_noflag(argc, argv, st, oc) ==
    IF strcmp0(Arg(argv, 1), S_low)
    THEN [Result(st, << <<"OK\n">> >>, <<Call("systick_deinit", TRUE)>>, {1})
          EXCEPT !.systick = FALSE, !.low_power = TRUE]
    ELSE IF strcmp0(Arg(argv, 1), S_normal)
    THEN [Result(st, << <<"OK\n">> >>, <<Call("systick_init", TRUE)>>, {1})
          EXCEPT !.systick = TRUE]
    ELSE Result(st, << <<"Error: illegal argument\n">> >>, <<>>, {1})

\* Mutant of power_handler: "low" sets the flag and leaves the tick service
\* running.
power_handler_nodeinit(argc, argv, st, oc) ==
    IF strcmp0(Arg(argv, 1), S_low)
    THEN [Result(st, << <<"OK\n">> >>, <<>>, {1})
          EXCEPT !.low_power = TRUE]
    ELSE IF strcmp0(Arg(argv, 1), S_normal)
    THEN [Result(st, << <<"OK\n">> >>, <<Call("systick_init", TRUE)>>, {1})
          EXCEPT !.systick = TRUE, !.low_power = FALSE]
    ELSE Result(st, << <<"Error: illegal argument\n">> >>, <<>>, {1})

power_handler(argc, argv, st, oc) ==
    IF strcmp0(Arg(argv, 1), S_low)
    THEN [Result(st, << <<"OK\n">> >>, <<Call("systick_deinit", TRUE)>>, {1})
          EXCEPT !.systick = FALSE, !.low_power = TRUE]
    ELSE IF strcmp0(Arg(argv, 1), S_normal)
    THEN [Result(st, << <<"OK\n">> >>, <<Call("systick_init", TRUE)>>, {1})
          EXCEPT !.systick = TRUE, !.low_power = FALSE]
    ELSE Result(st, << <<"Error: illegal argument\n">> >>, <<>>, {1})

\* ------------------------------------------------------------------------
\* Tokenizer and dispatcher (cli_run of cli.h), by their specification
\* ------------------------------------------------------------------------
RECURSIVE TokLen(_)
TokLen(s) ==
    IF s = <<>> \/ IsSpace(Head(s)) THEN 0 ELSE 1 + TokLen(Tail(s))

\* The white-space separated tokens of a line, in order.
RECURSIVE Tokenize(_)
Tokenize(s) ==
    LET t == SkipSpace(s)
    IN  IF t = <<>> THEN <<>>
        ELSE <<SubSeq(t, 1, TokLen(t))>>
             \o Tokenize(SubSeq(t, TokLen(t) + 1, Len(t)))

\* Index of the first table entry whose name is exactly `name`, 0 if none.
Lookup(cmds, num, name) ==
    IF \E k \in 1..num : cmds[k].cmd = name
    THEN CHOOSE k \in 1..num :
            /\ cmds[k].cmd = name
            /\ \A j \in 1..(k - 1) : cmds[j].cmd # name
    ELSE 0

CallHandler(handler, argc, argv, st, oc) ==
    CASE handler = "help_handler" -> help_handler(argc, argv, st, oc)
      [] handler = "halt_handler" -> halt_handler(argc, argv, st, oc)
      [] handler = "past_format_handler" -> past_format_handler(argc, argv, st, oc)
      [] handler = "past_read_handler" -> past_read_handler(argc, argv, st, oc)
      [] handler = "past_write_handler" -> past_write_handler(argc, argv, st, oc)
      [] handler = "past_erase_handler" -> past_erase_handler(argc, argv, st, oc)
      [] handler = "past_dump_handler" -> past_dump_handler(argc, argv, st, oc)
      [] handler = "temperature_handler" -> temperature_handler(argc, argv, st, oc)
      [] handler = "temperature_alert_handler" ->
             temperature_alert_handler(argc, argv, st, oc)
      [] handler = "rfm_handler" -> rfm_handler(argc, argv, st, oc)
      [] handler = "rtc_handler" -> rtc_handler(argc, argv, st, oc)
      [] handler = "power_handler" -> power_handler(argc, argv, st, oc)

\* What one call of cli_run did: the handler's result, with the kind of
\* dispatch ("none" for a line without tokens, "unknown", "usage" or
\* "handler"), the tokens, the index of the matched entry and the handlers
\* invoked.
Dispatched(r, kind, argv, entry, handlers) ==
    [past |-> r.past, low_power |-> r.low_power, systick |-> r.systick,
     out |-> r.out, calls |-> r.calls, reads |-> r.reads, halted |-> r.halted,
     fault |-> r.fault, kind |-> kind, argv |-> argv, entry |-> entry, handlers |-> handlers]

cli_run(cmds, num, str, st, oc) ==
    LET argv  == Tokenize(CStr(str))
        argc  == Len(argv)
        entry == IF argc = 0 THEN 0 ELSE Lookup(cmds, num, argv[1])
    IN  IF argc = 0
        THEN Dispatched(Result(st, <<>>, <<>>, {}), "none", argv, 0, <<>>)
        ELSE IF entry = 0
        THEN Dispatched(Result(st, << <<"unknown command", argv[1]>> >>, <<>>, {}),
                        "unknown", argv, 0, <<>>)
        ELSE IF argc - 1 < cmds[entry].min_arg \/ argc - 1 > cmds[entry].max_arg
        THEN Dispatched(Result(st, << <<"usage", cmds[entry].cmd, cmds[entry].usage>> >>,
                               <<>>, {}),
                        "usage", argv, entry, <<>>)
        ELSE Dispatched(CallHandler(cmds[entry].handler, argc, argv, st, oc),
                        "handler", argv, entry, <<cmds[entry].handler>>)

\* ------------------------------------------------------------------------
\* The receive ring buffer (ringbuf_t of hw.h), by its specification: a
\* queue of at most RingCapacity characters; a put on a full buffer drops
\* the incoming character.
\* ------------------------------------------------------------------------
RingCapacity == RX_BUF_SIZE

ringbuf_put(buf, c) == IF Len(buf) < RingCapacity THEN Append(buf, c) ELSE buf

\* ------------------------------------------------------------------------
\* Input lines typed on the serial link (each is followed by LF)
\* ------------------------------------------------------------------------
RECURSIVE Join(_)
Join(ws) == IF Len(ws) = 1 THEN ws[1] ELSE ws[1] \o <<SP>> \o Join(Tail(ws))

Fill(c, n) == [k \in 1..n |-> c]

S_foo == <<"f", "o", "o">>

\* 2^32 + 5: beyond the range of int.
S_beyond_int == <<"4", "2", "9", "4", "9", "6", "7", "3", "0", "1">>

\* 10^20 - 1: beyond the range of a 64-bit long.
S_beyond_long == Fill("9", 20)

S_hello == <<"h", "e", "l", "l", "o">>

S_key16 == <<"0", "1", "2", "3", "4", "5", "6", "7",
             "8", "9", "a", "b", "c", "d", "e", "f">>

CommandLines ==
    { Join(<<S_help>>), Join(<<S_help, <<"x">> >>),
      Join(<<S_halt>>), Join(<<S_halt>> \o Fill(<<"a">>, MaxHaltArgs)),
      Join(<<S_pastformat>>), Join(<<S_pastformat, <<"x">> >>),
      Join(<<S_pastread, <<"5">> >>), Join(<<S_pastread>>),
      S_pastread \o <<FF>> \o <<"5">>, Join(<<S_pastread, S_beyond_int>>),
      Join(<<S_pastread, S_beyond_long>>),
      Join(<<S_pastwrite, <<"5">>, S_hello>>), Join(<<S_pastwrite, <<"5">> >>),
      Join(<<S_pasterase, <<"5">> >>), Join(<<S_pasterase>>),
      Join(<<S_pastdump>>), Join(<<S_pastdump, <<"1", "6">> >>),
      Join(<<S_pastdump, <<"1">>, <<"2">> >>), Join(<<S_pastdump, S_beyond_long>>),
      Join(<<S_pastdump, <<"-", "1">> >>),
      Join(<<S_temp>>), Join(<<S_temp, <<"x">> >>),
      Join(<<S_tempalert>>), Join(<<S_tempalert, <<"1">> >>),
      Join(<<S_tempalert, <<"1">>, <<"2">> >>),
      Join(<<S_tempalert, <<"1">>, <<"2">>, <<"3">> >>),
      Join(<<S_rfm>>), Join(<<S_rfm, S_init>>), Join(<<S_rfm, S_foo>>),
      Join(<<S_rfm, S_id, <<"1">> >>), Join(<<S_rfm, S_key, S_key16>>),
      Join(<<S_rfm, S_key, S_foo>>), Join(<<S_rfm, S_foo, <<"1">> >>),
      Join(<<S_rfm, S_tx, <<"1">>, <<"h", "i">> >>),
      Join(<<S_rfm, S_foo, <<"1">>, <<"2">> >>),
      Join(<<S_rfm, <<"a">>, <<"b">>, <<"c">>, <<"d">> >>),
      Join(<<S_rtc>>), Join(<<S_rtc, <<"x">> >>),
      Join(<<S_power, S_low>>), Join(<<S_power, S_normal>>),
      Join(<<S_power, <<"s", "i", "d", "e", "w", "a", "y", "s">> >>),
      Join(<<S_power>>), Join(<<S_power, S_low, <<"x">> >>) }

OtherLines ==
    { S_foo, <<"H", "e", "l", "p">>, Join(<<<<"p", "o", "w">>, S_low>>),
      <<"h", "e", CR, "l", "p">>, <<"h", "e", NUL, "l", "p">>, <<SP>> \o S_help,
      <<CR>> }

LongLines == { Fill("x", n) : n \in (MAX_LINE_LENGTH - 3)..(MAX_LINE_LENGTH + MaxOver) }

InputLines == CommandLines \cup OtherLines \cup LongLines

\* What the link can have delivered of a line: the prefixes of the input
\* lines with their LF.
InputPrefixes ==
    UNION { { SubSeq(l \o <<LF>>, 1, n) : n \in 1..(Len(l) + 1) } : l \in InputLines }

Alphabet == { p[Len(p)] : p \in InputPrefixes }

\* The stores the board can start with: an empty one and one that holds the
\* five radio units.
ConfiguredPast ==
    [u \in {U32(past_rfm_node_id), U32(past_rfm_net_id), U32(past_rfm_gateway_id),
            U32(past_rfm_max_power), U32(past_rfm_key)} |->
        IF u = U32(past_rfm_key) THEN StrUnit(S_key16, 16) ELSE WordUnit(u)]

InitialPasts == {EmptyPast, ConfiguredPast}

\* Outcomes of the collaborator calls of one command.  No handler consults
\* more than one of them, except past_format_handler (format and init), so
\* the outcomes with at most one failure, or with the two failures of
\* past_format_handler, give every handler each combination it can see.
\* ub is what atoi makes of a number beyond the range of int, dump what a
\* dump beyond a block of the store comes to; the two are independent of
\* the failures, and no line of InputLines has a number beyond int next to a
\* call that can fail, so they vary where nothing fails.
AllOutcomes ==
    [format : BOOLEAN, init : BOOLEAN, write : BOOLEAN, erase : BOOLEAN,
     radio : BOOLEAN, tx : {0, 1}, rssi : {0}, pin : {0, 1}, temp : {23500},
     ub : AtoiOverflows, dump : DumpOutcomes]

Failures(oc) ==
    {f \in {"format", "init", "write", "erase", "radio"} : ~oc[f]}
    \cup (IF oc.tx = 0 THEN {"tx"} ELSE {}) \cup (IF oc.pin = 0 THEN {"pin"} ELSE {})

Outcomes ==
    {oc : oc \in
        {o \in AllOutcomes :
            /\ Cardinality(Failures(o)) <= 1 \/ Failures(o) = {"format", "init"}
            /\ Failures(o) = {} \/ (o.ub = "wrap" /\ o.dump = "ok")}}

\* ------------------------------------------------------------------------
\* State
\* ------------------------------------------------------------------------
VARIABLES
    pc,         \* position of main(): "start", "poll" (the ringbuf_get loop),
                \* "run" (in cli_run), "wait" (before __WFI), "sleep" (in
                \* __WFI), "halted" (in blinken_halt), "fault" (stopped by
                \* a memory fault)
    blinks,     \* blink_count of the blinken_halt entered, 0 before
    i,          \* index of the next character of the line
    line,       \* the written part of line[]
    rx_buf,     \* contents of the receive ring buffer, oldest first
    low_power,  \* the low_power flag
    systick,    \* TRUE while the periodic tick service runs
    past,       \* the persistent store
    sent,       \* characters of the line being typed that the link has delivered
    typed,      \* history: the non-CR characters pulled since the last LF
    out,        \* transcript items printed by the last step of main()
    last,       \* history: the last step of main() and the character it pulled
    wrote,      \* history: the unit and the data of the last pastwrite the
                \* store accepted, until a command writes, erases or formats it
    disp        \* history: what the last step did when it was a cli_run (the
                \* characters of line[] before the terminator, the tokens,
                \* the handlers invoked, their calls, the state before)

vars == <<pc, blinks, i, line, rx_buf, low_power, systick, past, sent,
          typed, out, last, wrote, disp>>

Prompt == <<"%% ">>

NoDisp == [kind |-> "idle"]

Step(op, b) == [op |-> op, b |-> b]

NoWrite == [unit |-> [hi |-> -1, lo |-> -1], data |-> <<>>]

\* The history of pastwrite after a command that ran the handlers hs on the
\* tokens argv and made the calls cs: a pastwrite the store accepted is
\* remembered with its data token, and forgotten at the next call that
\* writes or erases its unit or formats the store.
WroteAfter(w, hs, argv, cs) ==
    IF /\ hs = <<"past_write_handler">>
       /\ \E k \in 1..Len(cs) : cs[k].fn = "past_write_unit" /\ cs[k].ok
    THEN [unit |-> cs[1].unit, data |-> CStr(argv[3])]
    ELSE IF \E k \in 1..Len(cs) :
               \/ cs[k].fn = "past_format"
               \/ /\ cs[k].fn \in {"past_write_unit", "past_erase_unit"}
                  /\ cs[k].unit = w.unit
    THEN NoWrite
    ELSE w

Init ==
    /\ pc = "start"
    /\ blinks = 0
    /\ i = 0
    /\ line = <<NUL>>
    /\ rx_buf = <<>>
    /\ low_power = FALSE
    /\ systick = FALSE
    /\ past \in InitialPasts
    /\ sent = <<>>
    /\ typed = <<>>
    /\ out = <<>>
    /\ last = Step("reset", NUL)
    /\ wrote = NoWrite
    /\ disp = NoDisp

\* ------------------------------------------------------------------------
\* main() up to the foreground loop
\* ------------------------------------------------------------------------
StartupOut(ok, flash, tmp) ==
    IF ~ok
    THEN << <<"Error: past init failed!\n">>, <<"Past block 0:\n">>,
            dump_mem("blocks[0]", 64), <<"Past block 1:\n">>,
            dump_mem("blocks[1]", 64) >>
    ELSE << <<"\n\nWelcome to the AAduino Zero CLI\n">> >>
         \o (IF flash THEN << <<"Found SPI flash %s\n">> >>
                      ELSE << <<"No SPI flash found\n">> >>)
         \o (IF tmp THEN << <<"Temperature is %d.%d C\n">> >> ELSE <<>>)
         \o << <<"Try 'help <return>' for, well, help.\n">>, Prompt >>

\* hw_init() (hw.h), by the specification: it leaves the periodic tick
\* service running.
hw_init == TRUE

Startup ==
    /\ pc = "start"
    /\ \E ok \in BOOLEAN, flash \in BOOLEAN, tmp \in BOOLEAN :
          /\ out' = StartupOut(ok, flash, tmp)
          /\ blinks' = IF ok THEN 0 ELSE blinken_halt(InitFailBlinks)
          /\ pc' = IF blinks' = 0 THEN "poll" ELSE "halted"
    /\ systick' = hw_init
    /\ last' = Step("startup", NUL)
    /\ disp' = NoDisp
    /\ UNCHANGED <<i, line, rx_buf, low_power, past, sent, typed, wrote>>

\* ------------------------------------------------------------------------
\* The foreground loop
\* ------------------------------------------------------------------------
\* line[k] = c: the characters before index k stay, what follows index k is
\* not read before it is written again.
Put(a, k, c) == SubSeq(a, 1, k) \o <<c>>

\* Mutant of LineStep: the line takes MAX_LINE_LENGTH - 1 characters.
LineStepOneMore(idx, ln, b) ==
    IF b = CR
    THEN [i |-> idx, line |-> ln, out |-> <<>>, run |-> FALSE]
    ELSE IF b = LF
    THEN IF idx > 0
         THEN [i |-> idx, line |-> Put(ln, idx, NUL), out |-> << <<"\n">> >>, run |-> TRUE]
         ELSE [i |-> idx, line |-> ln, out |-> << <<"\n">>, Prompt >>,
               run |-> FALSE]
    ELSE IF idx < MAX_LINE_LENGTH - 1
    THEN [i |-> idx + 1, line |-> Put(ln, idx, b), out |-> << <<"%c", b>> >>,
          run |-> FALSE]
    ELSE [i |-> idx, line |-> ln, out |-> <<>>, run |-> FALSE]

\* Mutant of LineStep: a character that no longer fits is echoed all the same.
LineStepEchoAll(idx, ln, b) ==
    IF b = CR
    THEN [i |-> idx, line |-> ln, out |-> <<>>, run |-> FALSE]
    ELSE IF b = LF
    THEN IF idx > 0
         THEN [i |-> idx, line |-> Put(ln, idx, NUL), out |-> << <<"\n">> >>, run |-> TRUE]
         ELSE [i |-> idx, line |-> ln, out |-> << <<"\n">>, Prompt >>,
               run |-> FALSE]
    ELSE IF idx < MAX_LINE_LENGTH - 2
    THEN [i |-> idx + 1, line |-> Put(ln, idx, b), out |-> << <<"%c", b>> >>,
          run |-> FALSE]
    ELSE [i |-> idx, line |-> ln, out |-> << <<"%c", b>> >>, run |-> FALSE]

\* The body of the ringbuf_get loop for one character b, up to the call of
\* cli_run: the new index and line, the items printed, and whether cli_run
\* is called.
\* A LineStep without the length check.
LineStepUnbounded(idx, ln, b) ==
    IF b = CR
    THEN [i |-> idx, line |-> ln, out |-> <<>>, run |-> FALSE]
    ELSE IF b = LF
    THEN IF idx > 0
         THEN [i |-> idx, line |-> Put(ln, idx, NUL), out |-> << <<"\n">> >>, run |-> TRUE]
         ELSE [i |-> idx, line |-> ln, out |-> << <<"\n">>, Prompt >>,
               run |-> FALSE]
    ELSE [i |-> idx + 1, line |-> Put(ln, idx, b), out |-> << <<"%c", b>> >>,
          run |-> FALSE]

\* A LineStep that hands cli_run the line at every LF, empty or not.
LineStepRunEmpty(idx, ln, b) ==
    IF b = CR
    THEN [i |-> idx, line |-> ln, out |-> <<>>, run |-> FALSE]
    ELSE IF b = LF
    THEN [i |-> idx, line |-> Put(ln, idx, NUL), out |-> << <<"\n">> >>, run |-> TRUE]
    ELSE IF idx < MAX_LINE_LENGTH - 2
    THEN [i |-> idx + 1, line |-> Put(ln, idx, b), out |-> << <<"%c", b>> >>,
          run |-> FALSE]
    ELSE [i |-> idx, line |-> ln, out |-> <<>>, run |-> FALSE]

LineStep(idx, ln, b) ==
    IF b = CR
    THEN [i |-> idx, line |-> ln, out |-> <<>>, run |-> FALSE]
    ELSE IF b = LF
    THEN IF idx > 0
         THEN [i |-> idx, line |-> Put(ln, idx, NUL), out |-> << <<"\n">> >>, run |-> TRUE]
         ELSE [i |-> idx, line |-> ln, out |-> << <<"\n">>, Prompt >>,
               run |-> FALSE]
    ELSE IF idx < MAX_LINE_LENGTH - 2
    THEN [i |-> idx + 1, line |-> Put(ln, idx, b), out |-> << <<"%c", b>> >>,
          run |-> FALSE]
    ELSE [i |-> idx, line |-> ln, out |-> <<>>, run |-> FALSE]

\* History of the characters of the current line; it stops growing one
\* character after the longest input line.
TypedCap == MAX_LINE_LENGTH + MaxOver + 1

TypedAfter(t, b, run) ==
    IF b = CR THEN t
    ELSE IF b = LF THEN (IF run THEN t ELSE <<>>)
    ELSE IF Len(t) < TypedCap THEN Append(t, b) ELSE t

GetChar ==
    /\ pc = "poll"
    /\ rx_buf # <<>>
    /\ LET b == Head(rx_buf)
           s == LineStep(i, line, b)
       IN  /\ rx_buf' = Tail(rx_buf)
           /\ i' = s.i
           /\ line' = s.line
           /\ out' = s.out
           /\ pc' = IF s.run THEN "run" ELSE "poll"
           /\ typed' = TypedAfter(typed, b, s.run)
           /\ last' = Step("get", b)
    /\ disp' = NoDisp
    /\ UNCHANGED <<blinks, low_power, systick, past, sent, wrote>>

\* cli_run on the terminated line, then the reset of the line and the
\* prompt; a handler that ends in blinken_halt, or in a memory fault, never
\* returns.
RunCommandWith(num) ==
    /\ pc = "run"
    /\ LET st == [past |-> past, low_power |-> low_power, systick |-> systick]
       IN  \E r \in {cli_run(commands, num, line, st, oc) : oc \in Outcomes} :
              /\ past' = r.past
              /\ low_power' = r.low_power
              /\ systick' = r.systick
              /\ pc' = IF r.fault THEN "fault"
                       ELSE IF r.halted # 0 THEN "halted" ELSE "poll"
              /\ blinks' = r.halted
              /\ i' = IF r.fault \/ r.halted # 0 THEN i ELSE 0
              /\ line' = IF r.fault \/ r.halted # 0 THEN line ELSE <<NUL>>
              /\ out' = IF r.fault \/ r.halted # 0 THEN r.out ELSE r.out \o <<Prompt>>
              /\ disp' = [kind |-> r.kind, argv |-> r.argv, entry |-> r.entry,
                          handlers |-> r.handlers, calls |-> r.calls,
                          reads |-> r.reads, halted |-> r.halted,
                          fault |-> r.fault,
                          line |-> SubSeq(line, 1, i), typed |-> typed, pre |-> st]
    /\ typed' = <<>>
    /\ last' = Step("run", NUL)
    /\ wrote' = WroteAfter(wrote, disp'.handlers, disp'.argv, disp'.calls)
    /\ UNCHANGED <<rx_buf, sent>>

\* Mutant of RunCommand: the entry count handed to cli_run is one short.
RunCommandShort == RunCommandWith(NumCommands - 1)

\* A RunCommand that leaves i and line[] as they are once cli_run returned.
RunCommandKeepLine ==
    /\ pc = "run"
    /\ LET st == [past |-> past, low_power |-> low_power, systick |-> systick]
       IN  \E r \in {cli_run(commands, NumCommands, line, st, oc) : oc \in Outcomes} :
              /\ past' = r.past
              /\ low_power' = r.low_power
              /\ systick' = r.systick
              /\ pc' = IF r.fault THEN "fault"
                       ELSE IF r.halted # 0 THEN "halted" ELSE "poll"
              /\ blinks' = r.halted
              /\ out' = IF r.fault \/ r.halted # 0 THEN r.out ELSE r.out \o <<Prompt>>
              /\ disp' = [kind |-> r.kind, argv |-> r.argv, entry |-> r.entry,
                          handlers |-> r.handlers, calls |-> r.calls,
                          reads |-> r.reads, halted |-> r.halted,
                          fault |-> r.fault,
                          line |-> SubSeq(line, 1, i), typed |-> typed, pre |-> st]
    /\ typed' = <<>>
    /\ last' = Step("run", NUL)
    /\ wrote' = WroteAfter(wrote, disp'.handlers, disp'.argv, disp'.calls)
    /\ UNCHANGED <<i, line, rx_buf, sent>>

\* main() hands cli_run the whole table.
RunCommand == RunCommandWith(NumCommands)

\* Mutant of IdleStep: the loop waits whatever the power mode.
IdleStepAlways(lp) == [out |-> << <<".">> >>, pc |-> "wait"]

\* What the loop does once ringbuf_get found the buffer empty: the items
\* printed and the next position.
IdleStep(lp) ==
    IF lp THEN [out |-> << <<".">> >>, pc |-> "wait"]
    ELSE [out |-> <<>>, pc |-> "poll"]

PollEmpty ==
    /\ pc = "poll"
    /\ rx_buf = <<>>
    /\ out' = IdleStep(low_power).out
    /\ pc' = IdleStep(low_power).pc
    /\ last' = Step("empty", NUL)
    /\ disp' = NoDisp
    /\ UNCHANGED <<blinks, i, line, rx_buf, low_power, systick, past, sent, typed,
                   wrote>>

\* __WFI(): the processor stops until the next interrupt.
Wfi ==
    /\ pc = "wait"
    /\ pc' = "sleep"
    /\ out' = <<>>
    /\ last' = Step("wfi", NUL)
    /\ disp' = NoDisp
    /\ UNCHANGED <<blinks, i, line, rx_buf, low_power, systick, past, sent, typed,
                   wrote>>

\* ------------------------------------------------------------------------
\* Interrupts and the operator
\* ------------------------------------------------------------------------
\* The periodic wake source (rtcdrv_set_wakeup) ends a __WFI.
RtcWakeup ==
    /\ pc = "sleep"
    /\ pc' = "poll"
    /\ UNCHANGED <<blinks, i, line, rx_buf, low_power, systick, past, sent,
                   typed, out, last, wrote, disp>>

\* The operator types one of the input lines, each followed by LF.  The
\* receive interrupt appends the next character typed to the ring buffer,
\* and ends a __WFI.
RxInterrupt ==
    /\ pc \notin {"start", "fault"}
    /\ Len(rx_buf) < MaxAhead
    /\ \E c \in Alphabet :
          /\ Append(sent, c) \in InputPrefixes
          /\ rx_buf' = ringbuf_put(rx_buf, c)
          /\ sent' = IF c = LF THEN <<>> ELSE Append(sent, c)
    /\ pc' = IF pc = "sleep" THEN "poll" ELSE pc
    /\ UNCHANGED <<blinks, i, line, low_power, systick, past, typed, out, last,
                   wrote, disp>>

Next ==
    \/ Startup
    \/ GetChar
    \/ RunCommand
    \/ PollEmpty
    \/ Wfi
    \/ RtcWakeup
    \/ RxInterrupt

Spec == Init /\ [][Next]_vars

\* ------------------------------------------------------------------------
\* Properties
\* ------------------------------------------------------------------------
\* The state right after a cli_run.
Dispatching == last.op = "run"

\* The last cli_run invoked exactly the handler h, once.
Invoked(h) == Dispatching /\ disp.kind = "handler" /\ disp.handlers = <<h>>

\* Number of arguments of the last dispatched line.
NumArgs == Len(disp.argv) - 1

\* The format strings of the items the last step printed.
Formats == {out[k][1] : k \in 1..Len(out)}

\* The last step printed something besides the prompt.
Reported == \E k \in 1..Len(out) : out[k][1] # Prompt[1]

\* C1: for every table entry and every dispatched line whose first token is
\* the entry's name, the entry's handler is invoked exactly once when the
\* number of arguments lies within [min_arg, max_arg], and otherwise no
\* handler is invoked and the entry's usage string is emitted.
C1_ArityDispatch ==
    Dispatching =>
        \A k \in 1..Len(commands) :
            (disp.argv # <<>> /\ disp.argv[1] = commands[k].cmd) =>
                IF NumArgs >= commands[k].min_arg /\ NumArgs <= commands[k].max_arg
                THEN disp.handlers = <<commands[k].handler>>
                ELSE /\ disp.handlers = <<>>
                     /\ \E j \in 1..Len(out) :
                           /\ out[j][1] = "usage"
                           /\ out[j][3] = commands[k].usage

\* A "power" line with too many arguments was rejected with the usage.
C1_Witness ==
    /\ Dispatching
    /\ disp.kind = "usage"
    /\ disp.argv[1] = S_power
    /\ NumArgs > commands[disp.entry].max_arg

\* The twelve command names of the console protocol.
ProtocolNames ==
    {S_help, S_halt, S_pastformat, S_pastread, S_pastwrite, S_pasterase,
     S_pastdump, S_temp, S_tempalert, S_rfm, S_rtc, S_power}

UnknownLine ==
    Dispatching /\ disp.argv # <<>> /\ disp.argv[1] \notin ProtocolNames

\* C2: a dispatched line whose first token is none of the twelve command
\* names runs no handler, produces the unknown-command message naming the
\* token, and changes neither the power mode nor the store.
C2_UnknownCommand ==
    UnknownLine =>
        /\ disp.handlers = <<>>
        /\ disp.calls = <<>>
        /\ out[1][1] = "unknown command"
        /\ out[1][2] = disp.argv[1]
        /\ low_power = disp.pre.low_power
        /\ systick = disp.pre.systick
        /\ past = disp.pre.past

\* An unknown first token followed by a valid argument of another command.
C2_Witness == UnknownLine /\ NumArgs = 1 /\ disp.argv[2] = S_low

\* The first n characters of a sequence.
Prefix(t, n) == IF Len(t) <= n THEN t ELSE SubSeq(t, 1, n)

\* C3 as claimed: the dispatched content of a line is its first
\* MAX_LINE_LENGTH - 1 characters (79 characters pass intact).
C3_AsClaimed == Dispatching => disp.line = Prefix(disp.typed, MAX_LINE_LENGTH - 1)

\* C3 as amended: a line of up to MAX_LINE_LENGTH - 2 (78) non-CR characters
\* followed by LF is dispatched intact, and of a longer line exactly the
\* first MAX_LINE_LENGTH - 2 characters are dispatched.
C3_Truncation == Dispatching => disp.line = Prefix(disp.typed, MAX_LINE_LENGTH - 2)

\* A line of MAX_LINE_LENGTH characters was dispatched cut to 78.
C3_Witness ==
    /\ Dispatching
    /\ Len(disp.typed) = MAX_LINE_LENGTH
    /\ Len(disp.line) = MAX_LINE_LENGTH - 2

\* The last step pulled a character that is neither CR nor LF.
PulledChar == last.op = "get" /\ last.b \notin {CR, LF}

\* C4 as claimed: every non-CR, non-LF character pulled is echoed.
C4_AsClaimed == PulledChar => out = << <<"%c", last.b>> >>

\* C4 as amended: a non-CR, non-LF character pulled is echoed exactly when
\* it is appended to the line, that is while the line holds fewer than
\* MAX_LINE_LENGTH - 2 characters; later characters are neither appended
\* nor echoed, until the next LF.
C4_EchoIffAppended ==
    PulledChar =>
        IF Len(typed) <= MAX_LINE_LENGTH - 2
        THEN out = << <<"%c", last.b>> >> /\ i = Len(typed) /\ line[i] = last.b
        ELSE out = <<>> /\ i = MAX_LINE_LENGTH - 2

\* An over-bound character was pulled and was not echoed.
C4_Witness == PulledChar /\ Len(typed) = MAX_LINE_LENGTH - 1 /\ out = <<>>

\* The last dispatched line was "power <x>" and reached power_handler.
PowerCommand == Invoked("power_handler") /\ disp.argv[1] = S_power

\* C5: from either power mode, "power low" leaves the mode LowPower with the
\* tick service stopped, "power normal" leaves the mode Active with the tick
\* service running, and "power <x>" with any other x emits the
\* illegal-argument error and changes neither the mode nor the tick service.
C5_PowerCommand ==
    PowerCommand =>
        IF disp.argv[2] = S_low THEN low_power /\ ~systick
        ELSE IF disp.argv[2] = S_normal THEN ~low_power /\ systick
        ELSE /\ "Error: illegal argument\n" \in Formats
             /\ low_power = disp.pre.low_power
             /\ systick = disp.pre.systick

\* "power normal" brought the console back from LowPower.
C5_Witness ==
    /\ PowerCommand
    /\ disp.argv[2] = S_normal
    /\ disp.pre.low_power
    /\ ~low_power /\ systick

\* The foreground loop is between commands.
BetweenCommands == pc \in {"poll", "wait", "sleep"}

\* C6: the power mode starts as Active, and whenever the foreground loop is
\* between commands the mode is LowPower exactly when the tick service is
\* stopped (and Active exactly when it runs).
C6_ModeMatchesTick ==
    /\ pc = "start" => ~low_power
    /\ BetweenCommands => (low_power <=> ~systick)

\* The loop is about to wait in LowPower mode, the tick service stopped.
C6_Witness == pc = "wait" /\ low_power /\ ~systick

\* The system is in the blink loop entered by the halt handler.
HaltedByCommand == pc = "halted" /\ blinks = HaltBlinks

\* C7: once the halt handler has been invoked the system is in a terminal
\* state: the handler does not return, no prompt follows its output, and
\* from then on no character is pulled from the ring buffer, no command is
\* dispatched and nothing is printed, whatever input arrives.
C7_HaltIsTerminal ==
    /\ [](Invoked("halt_handler") => HaltedByCommand /\ Prompt[1] \notin Formats)
    /\ [][HaltedByCommand =>
            /\ HaltedByCommand'
            /\ UNCHANGED <<i, line, typed, out, last, disp, low_power, systick, past>>
            /\ \/ rx_buf' = rx_buf
               \/ \E c \in Alphabet : rx_buf' = Append(rx_buf, c)]_vars

\* Halted with arguments, and a character that arrived afterwards is still
\* in the ring buffer.
C7_Witness ==
    /\ HaltedByCommand
    /\ Invoked("halt_handler")
    /\ NumArgs = MaxHaltArgs
    /\ rx_buf # <<>>

Marker == << <<".">> >>

\* C8: the loop requests the wait only right after a poll that found the
\* ring buffer empty while the mode is LowPower, having printed exactly one
\* marker; while the mode is Active it prints no marker and requests no wait.
C8_WaitOnlyInLowPower ==
    /\ pc = "wait" => low_power /\ last.op = "empty" /\ out = Marker
    /\ pc = "sleep" => low_power /\ last.op = "wfi"
    /\ last.op = "wfi" => out = <<>>
    /\ ~low_power => pc \notin {"wait", "sleep"} /\ "." \notin Formats
    /\ (last.op = "empty" /\ "." \in Formats) => pc \in {"wait", "poll"} /\ out = Marker

\* The processor waits in LowPower mode.
C8_Witness == pc = "sleep" /\ low_power /\ last.op = "wfi"

RfmSubcommands == {S_init, S_id, S_net, S_gw, S_pwr, S_key, S_tx}

\* The last dispatched line reached a handler with an illegal sub-argument.
IllegalSubArgument ==
    \/ PowerCommand /\ disp.argv[2] \notin {S_low, S_normal}
    \/ /\ Invoked("rfm_handler")
       /\ NumArgs >= 1
       /\ \/ disp.argv[2] \notin RfmSubcommands
          \/ NumArgs = 2 /\ disp.argv[2] = S_key /\ Len(disp.argv[3]) # 16

\* C9: an illegal sub-argument that reaches a handler is reported by a
\* message, changes neither the power mode nor the store, and leaves the
\* loop accepting commands.
C9_IllegalSubArgument ==
    IllegalSubArgument =>
        /\ Reported
        /\ low_power = disp.pre.low_power
        /\ systick = disp.pre.systick
        /\ past = disp.pre.past
        /\ pc = "poll"

\* The k-th collaborator call of the last command failed.
FailingCall(k) == k \in 1..Len(disp.calls) /\ ~disp.calls[k].ok

\* The last command ran a handler that calls into the store or the radio
\* and treats a failing call as an error (a bare "rfm" prints NA for a
\* missing unit and goes on by design).
AbortingCommand ==
    /\ Dispatching
    /\ disp.kind = "handler"
    /\ disp.handlers[1] \in {"past_format_handler", "past_read_handler",
                             "past_write_handler", "past_erase_handler",
                             "rfm_handler"}
    /\ ~(disp.handlers[1] = "rfm_handler" /\ NumArgs = 0)

\* C10: when a collaborator call fails inside a command handler, the
\* handler reports it and makes no further collaborator call in that
\* command, and the loop goes on accepting commands.
C10_AbortOnFailure ==
    AbortingCommand =>
        \A k \in 1..Len(disp.calls) :
            FailingCall(k) => k = Len(disp.calls) /\ Reported /\ pc = "poll"

\* The blink-halt state entered from main's startup, when past_init failed.
HaltedAtStartup ==
    /\ pc = "halted"
    /\ blinks = InitFailBlinks
    /\ last.op = "startup"
    /\ "Error: past init failed!\n" \in Formats

\* C11 as stated: the blink-halt state is entered only through the dispatch
\* of the halt command, whatever the collaborators answer at startup.
C11_AsClaimed == pc = "halted" => Invoked("halt_handler")

\* C11: the blink-halt state is entered only through the dispatch of the
\* halt command (two blinks) or, before the first prompt, through a failed
\* past_init at startup (three blinks, after the error report); in every
\* other state the loop is running.
C11_HaltOnlyByCommandOrInit ==
    /\ pc = "halted" <=> blinks # 0
    /\ pc = "halted" => \/ HaltedByCommand /\ Invoked("halt_handler")
                        \/ HaltedAtStartup

C11_Witness == HaltedAtStartup /\ ~Invoked("halt_handler")

\* C12 as stated: tempalert takes no argument or two; with exactly one
\* argument the line is an argument-count error reported on the transcript
\* and the handler is not invoked.
C12_TempAlertArity ==
    (Dispatching /\ disp.kind # "none" /\ disp.argv[1] = S_tempalert) =>
        IF NumArgs \in {0, 2}
        THEN Invoked("temperature_alert_handler")
        ELSE disp.handlers = <<>> /\ disp.kind = "usage" /\ Reported

\* The unit id the handler of a pastread, pastwrite or pasterase line handed
\* to the store.
UnitArg == disp.calls[1].unit

\* The unit ids atoi can make of the first argument of the last line.
UnitArgs == {U32(atoi(disp.argv[2], ub)) : ub \in AtoiOverflows}

\* The last command was a pastread of the unit of the remembered pastwrite.
ReadsBackWrite ==
    /\ Invoked("past_read_handler")
    /\ wrote # NoWrite
    /\ UnitArg = wrote.unit

\* C13: a pastread of unit u that follows an accepted "pastwrite u d" with
\* no write, erase or format of u in between reports the length
\* strlen(d) + 1 and dumps that many bytes, the characters of d followed by
\* the terminator.
C13_ReadAfterWrite ==
    ReadsBackWrite =>
        /\ Len(out) = 3
        /\ out[1][1] = "'%s' (%d bytes)\n"
        /\ out[1][2].bytes = wrote.data \o <<NUL>>
        /\ out[1][3] = Len(wrote.data) + 1
        /\ out[2] = dump_mem(out[1][2], Len(wrote.data) + 1)
        /\ past = disp.pre.past

\* A pastread that reads back the five characters of an earlier
\* "pastwrite 5 hello" as six bytes.
C13_Witness ==
    /\ ReadsBackWrite
    /\ wrote.data = S_hello
    /\ out[1][3] = 6

\* C14: a pastread of a unit the store does not hold reports the unit as
\* not found, dumps nothing and leaves the store as it was.
C14_ReadMissingUnit ==
    (Invoked("past_read_handler") /\ UnitArg \notin DOMAIN disp.pre.past) =>
        /\ UnitArg \in UnitArgs
        /\ out = << <<"Unit %d not found\n", UnitArg>>, Prompt >>
        /\ past = disp.pre.past
        /\ pc = "poll"

\* A pastread of a unit that a pasterase removed from a store holding
\* other units.
C14_Witness ==
    /\ Invoked("past_read_handler")
    /\ UnitArg \notin DOMAIN disp.pre.past
    /\ disp.pre.past # EmptyPast
    /\ "Unit %d not found\n" \in Formats

\* C15: the line index stays within 0..MAX_LINE_LENGTH - 2, and the highest
\* index of line[] written so far, Len(line) - 1, stays within
\* 0..MAX_LINE_LENGTH - 1.
C15_IndexInBounds ==
    /\ i \in 0..(MAX_LINE_LENGTH - 2)
    /\ Len(line) \in 1..MAX_LINE_LENGTH
    /\ i <= Len(line)

\* The terminator written at index MAX_LINE_LENGTH - 2, after a line that
\* filled the buffer.
C15_Witness ==
    /\ pc = "run"
    /\ i = MAX_LINE_LENGTH - 2
    /\ Len(line) = MAX_LINE_LENGTH - 1
    /\ line[i + 1] = NUL
    /\ Len(typed) > MAX_LINE_LENGTH - 2

\* The step that pulls the character b from the ring buffer.
Pulls(b) == rx_buf # <<>> /\ Head(rx_buf) = b /\ rx_buf' = Tail(rx_buf)

\* C16: the characters of line[] before index i are the non-CR characters
\* pulled since the last LF, in order, cut at MAX_LINE_LENGTH - 2, so the
\* line handed to cli_run holds nothing of an earlier line; pulling a CR
\* changes neither the line nor the transcript.
C16_LineIsWhatWasPulled ==
    /\ [](pc \notin {"halted", "fault"} =>
            /\ SubSeq(line, 1, i) = Prefix(typed, MAX_LINE_LENGTH - 2)
            /\ \A k \in 1..i : line[k] \notin {CR, LF})
    /\ []((last.op = "get" /\ last.b = CR) => out = <<>>)
    /\ [][Pulls(CR) => UNCHANGED <<i, line, typed, pc>>]_vars

\* A CR pulled in the middle of a line.
C16_Witness ==
    /\ last.op = "get"
    /\ last.b = CR
    /\ SubSeq(line, 1, i) = <<"h", "e">>
    /\ out = <<>>

NewLine == <<"\n">>

\* C17: cli_run is never handed an empty line: an LF pulled when no
\* character was accumulated since the previous LF runs no handler,
\* changes nothing but the transcript, and prints the newline and the
\* prompt.
C17_NoEmptyDispatch ==
    /\ [](pc = "run" => i > 0 /\ typed # <<>>)
    /\ [](Dispatching => disp.line # <<>>)
    /\ [][(Pulls(LF) /\ typed = <<>>) =>
            /\ pc' = "poll"
            /\ out' = <<NewLine, Prompt>>
            /\ disp' = NoDisp
            /\ UNCHANGED <<i, line, typed, past, low_power, systick, blinks>>]_vars

\* An LF pulled on an empty line, answered by the newline and the prompt.
C17_Witness ==
    /\ last.op = "get"
    /\ last.b = LF
    /\ pc = "poll"
    /\ i = 0
    /\ out = <<NewLine, Prompt>>
    /\ disp = NoDisp

\* The number of prompts the last step printed.
Prompts == Cardinality({k \in 1..Len(out) : out[k][1] = Prompt[1]})

\* The ring buffer changed by appended characters only.
OnlyAppended ==
    /\ Len(rx_buf') >= Len(rx_buf)
    /\ SubSeq(rx_buf', 1, Len(rx_buf)) = rx_buf

\* C19 as stated: commands run one at a time: from the LF that hands a line to
\* cli_run until cli_run returned, no character is pulled from the ring
\* buffer and no state of the loop changes; a cli_run invokes at most one
\* handler; each LF pulled is answered by exactly one prompt, printed last
\* and after the handler's own items, except when the line dispatched halt,
\* and no other step prints a prompt before the next character is pulled.
C19_OneCommandAtATime ==
    /\ [](pc = "run" => last.op = "get" /\ last.b = LF /\ Prompts = 0)
    /\ []((last.op = "get" /\ pc # "run") =>
             Prompts = (IF last.b = LF THEN 1 ELSE 0))
    /\ [](Dispatching =>
             /\ Len(disp.handlers) <= 1
             /\ IF disp.halted # 0
                THEN pc = "halted" /\ Prompts = 0
                ELSE pc = "poll" /\ Prompts = 1 /\ out[Len(out)] = Prompt)
    /\ [](last.op \in {"empty", "wfi"} => Prompts = 0)
    /\ [][pc = "run" =>
             /\ OnlyAppended
             /\ pc' = "run" => UNCHANGED <<i, line, typed, past, low_power,
                                           systick, out, last, disp>>
             /\ pc' # "run" => last'.op = "run"]_vars

\* C20 as stated: no handler reads argv[k] with k >= argc.
C20_ReadsBelowArgc ==
    (Dispatching /\ disp.kind = "handler") =>
        \A k \in disp.reads : k < Len(disp.argv)

\* Every handler but rfm_handler keeps its reads below argc.
C20_OthersBelowArgc ==
    (Dispatching /\ disp.kind = "handler" /\ disp.handlers # <<"rfm_handler">>) =>
        \A k \in disp.reads : k < Len(disp.argv)

\* ------------------------------------------------------------------------
\* Progress
\* ------------------------------------------------------------------------
\* The processor keeps executing main(): each step of the foreground loop
\* that can be taken is taken, and the wake source armed by
\* rtcdrv_set_wakeup(1) keeps firing.  RunCommand is enabled exactly when
\* pc = "run" and every RunCommand step leaves that position, so its weak
\* fairness is stated on the position: cli_run returns, or ends in
\* blinken_halt or in a memory fault.  Nothing is assumed of the operator or of RxInterrupt.
FairSpec ==
    /\ Spec
    /\ WF_vars(Startup)
    /\ WF_vars(GetChar)
    /\ []<>(pc # "run")
    /\ WF_vars(PollEmpty)
    /\ WF_vars(Wfi)
    /\ WF_vars(RtcWakeup)

S_power_normal == Join(<<S_power, S_normal>>)

\* The whole line "power normal" has been received, part of it still in the
\* ring buffer, while the low-power flag is set.
PowerNormalReceived ==
    /\ low_power
    /\ pc # "halted"
    /\ rx_buf # <<>>
    /\ typed \o rx_buf = S_power_normal \o <<LF>>

\* C18 as stated: unless the system is halted, the ring buffer does not stay
\* non-empty without characters being pulled from it: at all times it will
\* be empty again or another character will be pulled, whatever the power
\* mode and wherever the loop was when the character arrived, so every
\* character appended is eventually pulled; in particular a complete
\* "power normal" line received while the low-power flag is set eventually
\* clears the flag.
C18_EveryByteIsPulled ==
    /\ \/ []<>(rx_buf = <<>> \/ pc = "halted")
       \/ []<><<GetChar>>_vars
    /\ PowerNormalReceived ~> ~low_power

=============================================================================
